---- MODULE Spec2Model ----
(***************************************************************************)
(* Model of the Go chess benchmark (src/go/benchmark.go): the UCI engine   *)
(* session (NewStockfishEngine, waitForReady, analyze, quit), the accuracy *)
(* scorer (wdlToProb, calcAccuracy), the game analyzer (analyzeGame) and   *)
(* main: the fetching of the archives (fetchArchives, fetchGames) and the  *)
(* batch scheduler (semaphore, WaitGroup, results channel, completion      *)
(* counter, collecting loop).                                              *)
(*                                                                         *)
(* Numbers.  The code computes with float64.  The model computes the same  *)
(* quantities exactly, as integers on a fixed scale:                       *)
(*   a win probability p is represented by 2000*p  (= 2*win + draw),       *)
(*   an accuracy a (0..100) is represented by 10*a (so 100.0 is 1000),     *)
(*   a mean is the pair [sum, n] of the scaled sum and the divisor.        *)
(*                                                                         *)
(* Text.  A line read from the engine is the sequence of its space-        *)
(* separated words; the line terminator that ReadString leaves at the end  *)
(* of the line belongs to the last word of the line.                       *)
(***************************************************************************)
EXTENDS Integers, Sequences, FiniteSets, TLC

\* ------------------------------------------------------------------ bounds
\* Largest number of game records of a batch.
MaxGames == 2
\* Largest number of half-moves of a game record.
MaxMoves == 4
\* Largest number of lines the engine emits before the line that ends a read.
MaxLines == 2
\* Largest value of the -workers flag.
MaxWorkers == 2

\* ------------------------------------------------------- text and parsing
\* The decimal words strconv.Atoi accepts, with their values.
AtoiTable ==
  ("0" :> 0) @@ ("100" :> 100) @@ ("500" :> 500) @@ ("800" :> 800) @@ ("1000" :> 1000)

\* strconv.Atoi(word) succeeded.  A word that still carries the line
\* terminator is not a decimal number.
AtoiOk(word, hasNewline) == (~hasNewline) /\ word \in DOMAIN AtoiTable

Atoi(word) == AtoiTable[word]

\* strings.Index(line, " wdl "): the position of the first word wdl that has
\* a space on both sides, 0 when there is none (Go: -1).
WdlIndex(line) ==
  LET hits == {k \in 2..(Len(line) - 1) : line[k] = "wdl"}
  IN  IF hits = {} THEN 0 ELSE CHOOSE k \in hits : \A j \in hits : k <= j

\* len(strings.SplitN(rest, " ", 4)) for the text after the marker at idx.
NumParts(line, idx) ==
  IF Len(line) - idx >= 4 THEN 4 ELSE Len(line) - idx

\* Variant: every component is parsed from parts[0].
Component_first(held, line, idx, j) ==
  IF AtoiOk(line[idx + 1], idx + 1 = Len(line)) THEN Atoi(line[idx + 1]) ELSE held

\* One component of the triple after a line: parts[j-1] parsed, or the value
\* held before.  parts[j-1] carries the terminator when it is the last word
\* of the line.
Component(held, line, idx, j) ==
  IF AtoiOk(line[idx + j], idx + j = Len(line)) THEN Atoi(line[idx + j]) ELSE held

\* The body of analyze's loop up to the bestmove test: the triple held after
\* the line.
ParseLine(held, line) ==
  LET idx == WdlIndex(line)
  IN  IF idx # 0 /\ NumParts(line, idx) >= 3
        THEN << Component(held[1], line, idx, 1),
                Component(held[2], line, idx, 2),
                Component(held[3], line, idx, 3) >>
        ELSE held

\* strings.HasPrefix(line, "bestmove")
IsBestmove(line) == Len(line) >= 1 /\ line[1] = "bestmove"

\* Variant: draw and loss defaults exchanged.
DefaultWDL_mut == <<333, 333, 334>>

\* The value analyze starts from.
DefaultWDL == <<333, 334, 333>>

\* Variant: a read error discards the values held and gives the default.
RECURSIVE ReadLoop_reset(_, _, _)
ReadLoop_reset(held, output, i) ==
  IF i > Len(output)
    THEN [wdl |-> DefaultWDL, end |-> "eof"]
    ELSE LET now == ParseLine(held, output[i])
         IN  IF IsBestmove(output[i])
               THEN [wdl |-> now, end |-> "bestmove"]
               ELSE ReadLoop_reset(now, output, i + 1)

\* analyze's read loop over the lines the engine emits: the loop ends at the
\* first line that starts with bestmove, or with a read error when the lines
\* run out (the pipe is closed).
RECURSIVE ReadLoop(_, _, _)
ReadLoop(held, output, i) ==
  IF i > Len(output)
    THEN [wdl |-> held, end |-> "eof"]
    ELSE LET now == ParseLine(held, output[i])
         IN  IF IsBestmove(output[i])
               THEN [wdl |-> now, end |-> "bestmove"]
               ELSE ReadLoop(now, output, i + 1)

analyze(output) == ReadLoop(DefaultWDL, output, 1)

\* --------------------------------------------------------------- scorer
\* wdlToProb, on the scale 2000.
\* Variant: the win and loss counts are not swapped for Black.
wdlToProb_noswap(w, d, l, isWhite) == 2 * w + d

\* Variant: a draw counts as a full win.
wdlToProb_fulldraw(w, d, l, isWhite) ==
  LET win == IF isWhite THEN w ELSE l
  IN  2 * win + 2 * d

wdlToProb(w, d, l, isWhite) ==
  LET win == IF isWhite THEN w ELSE l
  IN  2 * win + d

\* Variant: the drop is not doubled.
calcAccuracy_single(before, after) ==
  IF after >= before THEN 1000
  ELSE LET acc == 1000 - (before - after) \div 2 IN IF acc < 0 THEN 0 ELSE acc

\* calcAccuracy: probabilities on the scale 2000, result on the scale 10.
\* Variant: the result is not floored at 0.
calcAccuracy_nofloor(before, after) ==
  IF after >= before THEN 1000 ELSE 1000 - (before - after)

calcAccuracy(before, after) ==
  IF after >= before
    THEN 1000
    ELSE LET acc == 1000 - (before - after)
         IN  IF acc < 0 THEN 0 ELSE acc

\* Sum of a sequence of accuracies.
RECURSIVE SumAcc(_)
SumAcc(accs) ==
  IF accs = <<>> THEN 0 ELSE Head(accs).acc + SumAcc(Tail(accs))

\* Variant: the sum is divided by the number of entries even when there is
\* none.
MeanAcc_noguard(accs) == [sum |-> SumAcc(accs), n |-> Len(accs)]

\* The mean analyzeGame reports for one side: 0 when the side has no entry,
\* else the sum divided by the number of entries.
MeanAcc(accs) ==
  IF Len(accs) > 0
    THEN [sum |-> SumAcc(accs), n |-> Len(accs)]
    ELSE [sum |-> 0, n |-> 1]

\* Variant: only the white entries are counted.
TotalMoves_mut(wAcc, bAcc) == Len(wAcc)

\* The move count analyzeGame reports.
TotalMoves(wAcc, bAcc) == Len(wAcc) + Len(bAcc)

\* ------------------------------------------------------------ game records
\* A PlayerData pointer that is nil.
NoPlayer == "<nil>"

\* strings.ToLower on the user names of the model.
ToLowerTable ==
  ("" :> "") @@ ("hikaru" :> "hikaru") @@ ("Hikaru" :> "hikaru") @@
  ("HIKARU" :> "hikaru") @@ ("magnus" :> "magnus") @@ ("Magnus" :> "magnus")

ToLower(name) == ToLowerTable[name]

\* The name analyzeGame compares for one side of the record.
PlayerName(player) == IF player = NoPlayer THEN "" ELSE ToLower(player)

\* The PGN text of a record: empty, text chess.PGN rejects, or the text of a
\* game of n legal half-moves from the standard start position.
EmptyPGN == [kind |-> "empty", n |-> 0]
BadPGN == [kind |-> "unparseable", n |-> 0]
MovesPGN(n) == [kind |-> "moves", n |-> n]

\* The text of a game whose move number k + 1 is illegal or cannot be read,
\* after k legal half-moves: chess.PGN returns an error for it.
IllegalPGN(k) == [kind |-> "illegal", n |-> k]

GameData(pgn, white, black) == [pgn |-> pgn, white |-> white, black |-> black]

\* Variant: the player check is missing.
Rejected_mut(g, user) == g.pgn.kind = "empty"

\* analyzeGame's first two early returns: no PGN text, or the target user
\* plays neither side.
Rejected(g, user) ==
  \/ g.pgn.kind = "empty"
  \/ /\ PlayerName(g.white) # ToLower(user)
     /\ PlayerName(g.black) # ToLower(user)

\* The side to move in the position reached after `applied` half-moves of a
\* game from the standard start position (pos.Position().Turn()).
Turn(applied) == IF applied % 2 = 0 THEN "white" ELSE "black"

\* Variant: the turn is read after the move is applied.
MoverIsWhite_mut(applied) == Turn(applied + 1) = "white"

\* The side analyzeGame attributes a move to: the side to move in the
\* position before the move is applied.
MoverIsWhite(applied) == Turn(applied) = "white"

\* The absent result of analyzeGame.
Absent ==
  [wa |-> [sum |-> 0, n |-> 1], ba |-> [sum |-> 0, n |-> 1], moves |-> 0,
   white |-> "", black |-> "", ok |-> FALSE]

\* The result analyzeGame returns after the move loop.
GameResult(g, wAcc, bAcc) ==
  [wa |-> MeanAcc(wAcc), ba |-> MeanAcc(bAcc), moves |-> TotalMoves(wAcc, bAcc),
   white |-> PlayerName(g.white), black |-> PlayerName(g.black), ok |-> TRUE]

\* ---------------------------------------------------------- engine output
BestmoveLine == <<"bestmove", "e2e4">>
InfoLine == <<"info", "depth", "4">>

\* An info line with the WDL fields given, followed by further fields or not.
WdlLine(fields, more) ==
  <<"info", "score", "wdl">> \o fields \o (IF more THEN <<"nodes", "7">> ELSE <<>>)

\* The answers of an engine that reports WDL (500, 0, 500) for every request.
FixedOutputs ==
  { << WdlLine(<<"500", "0", "500">>, more), BestmoveLine >> : more \in BOOLEAN }

\* The output of the engine in the batch configurations: one fixed answer
\* (the pipe can still close, or the engine hang, during the handshake).
BatchOutputs == { << WdlLine(<<"500", "0", "500">>, TRUE), BestmoveLine >> }

\* The outputs of the engine in the single-game configurations: the fixed
\* answers, an answer without WDL, and a pipe that closes.
GameOutputs == FixedOutputs \cup { <<BestmoveLine>>, <<>> }

\* A triple of fields with field j replaced by a word that is not a number.
Garble(fields, j) == [k \in 1..3 |-> IF k = j THEN "x" ELSE fields[k]]

\* The lines of the session configuration: two numeric WDL lines followed by
\* further fields, a numeric WDL line whose third field ends the line, WDL
\* lines with one malformed field (followed by further fields, and ending the
\* line), and a line without marker.
SessionLines ==
  { WdlLine(<<"1000", "0", "0">>, TRUE),
    WdlLine(<<"100", "800", "100">>, TRUE),
    WdlLine(<<"0", "0", "1000">>, FALSE),
    InfoLine }
    \cup { WdlLine(Garble(<<"100", "800", "100">>, 1), more) : more \in BOOLEAN }

\* Sequences of at most n lines.
RECURSIVE LineSeqs(_)
LineSeqs(n) ==
  IF n = 0 THEN { <<>> }
  ELSE LET shorter == LineSeqs(n - 1)
       IN  shorter \cup { Append(s, ln) : s \in {x \in shorter : Len(x) = n - 1},
                                           ln \in SessionLines }

\* The outputs of the engine in the session configuration: up to MaxLines
\* lines, then the bestmove line or the end of the pipe.
SessionOutputs ==
  LET body == LineSeqs(MaxLines)
  IN  body \cup { Append(s, BestmoveLine) : s \in body }

\* ------------------------------------------------------------------- state
VARIABLES
  username,        \* the -username flag
  workers,         \* the -workers flag
  remote,          \* what the server answers to the listing request: its archives in
                   \* listing order, each as the list of records it holds
  archives,        \* main: the archives still to fetch, each as the list it holds
  fetchFailed,     \* a request failed or its JSON could not be decoded
  allGames,        \* the fetched game records, in order
  engineKind,      \* which engine binary runs: decides what it may emit
  mainPc,          \* position of main: "archives", "games", "launch", "collect", "done"
  launched,        \* number of game goroutines main has started
  closerPc,        \* the goroutine of wg.Wait(); close(results): "none", "wait", "done"
  sem,             \* number of elements in the channel sem
  wg,              \* counter of the WaitGroup
  completed,       \* the completion counter
  obtained,        \* the values atomic.AddInt64 has returned, in order
  progress,        \* the counts printed in progress lines, in order
  results,         \* content of the channel results
  closed,          \* results has been closed
  pc,              \* position of each game goroutine
  eng,             \* state of the engine subprocess of each game goroutine
  applied,         \* analyzeGame: number of moves applied to pos
  pw,              \* analyzeGame: pw, pd, pl
  whiteAcc,        \* analyzeGame: whiteAcc, each entry with the ply it scores
  blackAcc,        \* analyzeGame: blackAcc
  ret,             \* the values analyzeGame returns
  sent,            \* the commands written to the engine's stdin, in order
  spawned,         \* number of subprocesses the goroutine has started
  startupEof,      \* waitForReady returned on a read error
  analyzed,        \* main: analyzed
  totalMoves,      \* main: totalMoves
  userAcc,         \* main: userAcc
  received,        \* number of records main has taken from results
  lastCall,        \* the latest return of analyze in the first game's goroutine
  bestmoves,       \* number of bestmove lines each goroutine's analyze calls have read
  nominal,         \* every engine so far started, answered with FixedOutputs and quit
  score            \* the latest call of a scoring function on its own: arguments, result

config == <<username, workers, allGames, engineKind>>
fetchVars == <<remote, archives, fetchFailed>>
mainVars == <<mainPc, launched, closerPc>>
shared == <<sem, wg, completed, obtained, progress, results, closed>>
gameVars == <<applied, pw, whiteAcc, blackAcc, ret>>
engVars == <<eng, sent, spawned, startupEof, lastCall, bestmoves, nominal>>
collector == <<analyzed, totalMoves, userAcc, received>>
vars == <<config, fetchVars, mainVars, shared, pc, gameVars, engVars, collector, score>>

\* len(allGames), and the game goroutines main starts: one per record.
total == Len(allGames)
Tasks == DOMAIN pc

\* What the engine binary may emit in answer to one go command.
engineOutputs ==
  CASE engineKind = "batch" -> BatchOutputs
    [] engineKind = "fixed" -> FixedOutputs
    [] engineKind = "game" -> GameOutputs
    [] engineKind = "session" -> SessionOutputs

\* The records of the batch configurations.
BatchRecords ==
  { GameData(MovesPGN(1), "Hikaru", "Magnus"),
    GameData(BadPGN, "magnus", "HIKARU") }

\* The three records of the end-to-end scenario: no PGN text, the target
\* user on neither side, a game of two half-moves with the target as White.
E2ERecords ==
  { GameData(EmptyPGN, "Hikaru", "Magnus"),
    GameData(MovesPGN(2), "Magnus", NoPlayer),
    GameData(MovesPGN(2), "Hikaru", "Magnus") }

\* The records of the single-game configurations.
Players == {NoPlayer, "", "Hikaru", "hikaru", "Magnus"}
PGNs ==
  {EmptyPGN, BadPGN} \cup { MovesPGN(n) : n \in 0..MaxMoves }
    \cup { IllegalPGN(k) : k \in 1..MaxMoves }
GameRecords == { GameData(p, w, b) : p \in PGNs, w \in Players, b \in Players }

\* Sequences of at most n batch records.
RECURSIVE Batches(_)
Batches(n) ==
  IF n = 0 THEN { <<>> }
  ELSE LET shorter == Batches(n - 1)
       IN  shorter \cup { Append(s, g) : s \in {x \in shorter : Len(x) = n - 1},
                                          g \in BatchRecords }

\* What the server holds in the batch configurations: one archive of up to
\* MaxGames records, or two archives of one record each.
Listings ==
  { <<b>> : b \in Batches(MaxGames) }
    \cup { << <<g>>, <<h>> >> : g \in BatchRecords, h \in BatchRecords }

\* A batch of up to MaxGames records, any number of workers.
BatchConfig ==
  /\ username = "hikaru"
  /\ workers \in 0..MaxWorkers
  /\ remote \in Listings
  /\ engineKind = "batch"

\* The three records of the end-to-end scenario in any order, an engine whose
\* every answer is one of the fixed answers.
E2EConfig ==
  /\ username = "hikaru"
  /\ workers \in 1..MaxWorkers
  /\ remote \in { <<s>> : s \in { x \in [1..3 -> E2ERecords] :
                                    \A g \in E2ERecords : \E i \in 1..3 : x[i] = g } }
  /\ engineKind = "fixed"

\* One record of any shape, any target user.
GameConfig ==
  /\ username \in {"hikaru", "Hikaru", ""}
  /\ workers = 1
  /\ remote \in { << <<g>> >> : g \in GameRecords }
  /\ engineKind = "game"

\* One game of one move, an engine that emits any of the session outputs.
SessionConfig ==
  /\ username = "hikaru"
  /\ workers = 1
  /\ remote = << << GameData(MovesPGN(1), "Hikaru", "Magnus") >> >>
  /\ engineKind = "session"

NoCall ==
  [task |-> 0, first |-> TRUE, prev |-> DefaultWDL, output |-> <<>>,
   wdl |-> DefaultWDL, end |-> "eof"]

\* No scoring function has been called on its own.
NoScore ==
  [op |-> "none", w |-> 0, d |-> 0, l |-> 0, isWhite |-> TRUE,
   before |-> 0, after |-> 0, returned |-> TRUE, out |-> 0]

\* main before it fetches anything: no record, no game goroutine, the
\* counters are zero.
Start ==
  /\ mainPc = "archives"
  /\ archives = <<>>
  /\ fetchFailed = FALSE
  /\ allGames = <<>>
  /\ launched = 0
  /\ closerPc = "none"
  /\ sem = 0
  /\ wg = 0
  /\ completed = 0
  /\ obtained = <<>>
  /\ progress = <<>>
  /\ results = <<>>
  /\ closed = FALSE
  /\ pc = <<>>
  /\ eng = <<>>
  /\ applied = <<>>
  /\ pw = <<>>
  /\ whiteAcc = <<>>
  /\ blackAcc = <<>>
  /\ ret = <<>>
  /\ sent = <<>>
  /\ spawned = <<>>
  /\ startupEof = <<>>
  /\ bestmoves = <<>>
  /\ analyzed = 0
  /\ totalMoves = 0
  /\ userAcc = <<>>
  /\ received = 0
  /\ lastCall = NoCall
  /\ nominal = TRUE

Init ==
  /\ BatchConfig \/ E2EConfig \/ GameConfig \/ SessionConfig
  /\ Start
  /\ score = NoScore

\* --------------------------------------------------------------- main
\* The default of the -games flag.
DefaultMaxGames == 1000

\* The ways a request ends: the body decodes, httpClient.Do fails, or the
\* body is not the expected JSON (Decode's error is dropped and the list
\* stays nil).
FetchOutcomes == {"ok", "neterr", "badjson"}

RECURSIVE Reverse(_)
Reverse(seq) ==
  IF seq = <<>> THEN <<>> ELSE Append(Reverse(Tail(seq)), Head(seq))

\* archives, _ := fetchArchives(*username), then the reversal in place.
FetchArchives ==
  /\ mainPc = "archives"
  /\ \E o \in FetchOutcomes :
       /\ archives' = IF o = "ok" THEN Reverse(remote) ELSE <<>>
       /\ fetchFailed' = (fetchFailed \/ o # "ok")
  /\ remote' = <<>>
  /\ mainPc' = "games"
  /\ UNCHANGED <<config, launched, closerPc, shared, pc, gameVars, engVars,
                 collector, score>>

\* One iteration of the loop over archives: games, _ := fetchGames(url);
\* allGames = append(allGames, games...).
FetchGames ==
  /\ mainPc = "games"
  /\ archives # <<>>
  /\ Len(allGames) < DefaultMaxGames
  /\ \E o \in FetchOutcomes :
       /\ allGames' = IF o = "ok" THEN allGames \o Head(archives) ELSE allGames
       /\ fetchFailed' = (fetchFailed \/ o # "ok")
  /\ archives' = Tail(archives)
  /\ UNCHANGED <<username, workers, engineKind, remote, mainVars, shared, pc,
                 gameVars, engVars, collector, score>>

\* The loop over archives ends; allGames is cut to maxGames; total, results,
\* wg and sem are created.  The per-goroutine variables get one entry per
\* record.
StartAnalysis ==
  /\ mainPc = "games"
  /\ archives = <<>> \/ Len(allGames) >= DefaultMaxGames
  /\ allGames' = IF Len(allGames) > DefaultMaxGames
                    THEN SubSeq(allGames, 1, DefaultMaxGames)
                    ELSE allGames
  /\ mainPc' = "launch"
  /\ pc' = [t \in 1..Len(allGames') |-> "unborn"]
  /\ eng' = [t \in 1..Len(allGames') |-> "none"]
  /\ applied' = [t \in 1..Len(allGames') |-> 0]
  /\ pw' = [t \in 1..Len(allGames') |-> DefaultWDL]
  /\ whiteAcc' = [t \in 1..Len(allGames') |-> <<>>]
  /\ blackAcc' = [t \in 1..Len(allGames') |-> <<>>]
  /\ ret' = [t \in 1..Len(allGames') |-> Absent]
  /\ sent' = [t \in 1..Len(allGames') |-> <<>>]
  /\ spawned' = [t \in 1..Len(allGames') |-> 0]
  /\ startupEof' = [t \in 1..Len(allGames') |-> FALSE]
  /\ bestmoves' = [t \in 1..Len(allGames') |-> 0]
  /\ UNCHANGED <<username, workers, engineKind, fetchVars, launched, closerPc, shared,
                 lastCall, nominal, collector, score>>

\* One iteration of main's loop over allGames: wg.Add(1); go func(game).
Launch ==
  /\ mainPc = "launch"
  /\ launched < total
  /\ wg' = wg + 1
  /\ launched' = launched + 1
  /\ pc' = [pc EXCEPT ![launched + 1] = "sem"]
  /\ UNCHANGED <<config, score, fetchVars, mainPc, closerPc, sem, completed, obtained, progress, results, closed,
                 gameVars, engVars, collector>>

\* go func() { wg.Wait(); close(results) }() ; main goes on to the range loop.
StartCloser ==
  /\ mainPc = "launch"
  /\ launched = total
  /\ mainPc' = "collect"
  /\ closerPc' = "wait"
  /\ UNCHANGED <<config, score, fetchVars, launched, shared, pc, gameVars, engVars, collector>>

\* Variant: results is closed without waiting for the WaitGroup.
CloseResults_nowait ==
  /\ closerPc = "wait"
  /\ closed' = TRUE
  /\ closerPc' = "done"
  /\ UNCHANGED <<config, score, fetchVars, mainPc, launched, sem, wg, completed, obtained, progress, results,
                 pc, gameVars, engVars, collector>>

\* wg.Wait() returns; close(results).
CloseResults ==
  /\ closerPc = "wait"
  /\ wg = 0
  /\ closed' = TRUE
  /\ closerPc' = "done"
  /\ UNCHANGED <<config, score, fetchVars, mainPc, launched, sem, wg, completed, obtained, progress, results,
                 pc, gameVars, engVars, collector>>

\* Variant: analyzed is incremented for every record taken from results.
Collect_all ==
  /\ mainPc = "collect"
  /\ results # <<>>
  /\ LET r == Head(results)
     IN  /\ results' = Tail(results)
         /\ received' = received + 1
         /\ IF r.ok
              THEN /\ analyzed' = analyzed + 1
                   /\ totalMoves' = totalMoves + r.moves
                   /\ userAcc' = Append(userAcc,
                                        IF r.white = ToLower(username) THEN r.wa ELSE r.ba)
              ELSE /\ analyzed' = analyzed + 1
                   /\ UNCHANGED <<totalMoves, userAcc>>
  /\ UNCHANGED <<config, score, fetchVars, mainVars, sem, wg, completed, obtained, progress, closed,
                 pc, gameVars, engVars>>

\* One iteration of `for r := range results`.
Collect ==
  /\ mainPc = "collect"
  /\ results # <<>>
  /\ LET r == Head(results)
     IN  /\ results' = Tail(results)
         /\ received' = received + 1
         /\ IF r.ok
              THEN /\ analyzed' = analyzed + 1
                   /\ totalMoves' = totalMoves + r.moves
                   /\ userAcc' = Append(userAcc,
                                        IF r.white = ToLower(username) THEN r.wa ELSE r.ba)
              ELSE UNCHANGED <<analyzed, totalMoves, userAcc>>
  /\ UNCHANGED <<config, score, fetchVars, mainVars, sem, wg, completed, obtained, progress, closed,
                 pc, gameVars, engVars>>

\* The range loop ends: results is closed and empty.
CollectDone ==
  /\ mainPc = "collect"
  /\ results = <<>>
  /\ closed
  /\ mainPc' = "done"
  /\ UNCHANGED <<config, score, fetchVars, launched, closerPc, shared, pc, gameVars, engVars, collector>>

\* ------------------------------------------------------- game goroutines
\* Variant: the send on sem never blocks.
SemHasRoom_mut == TRUE

\* Variant: a channel of capacity 0 never blocks the sender.
SemHasRoom_zero == sem < workers \/ workers = 0

\* sem <- struct{}{} can proceed: the channel holds fewer than workers elements.
SemHasRoom == sem < workers

\* sem <- struct{}{}
Acquire(t) ==
  /\ pc[t] = "sem"
  /\ SemHasRoom
  /\ sem' = sem + 1
  /\ pc' = [pc EXCEPT ![t] = "call"]
  /\ UNCHANGED <<config, score, fetchVars, mainVars, wg, completed, obtained, progress, results, closed,
                 gameVars, engVars, collector>>

\* analyzeGame returns before it starts an engine: the record is rejected,
\* chess.PGN fails, or the game has no move.
Unanalyzable(g, user) ==
  \/ Rejected(g, user)
  \/ g.pgn.kind \in {"unparseable", "illegal"}
  \/ g.pgn.n = 0

\* Variant: the goroutine returns without sending a record when analyzeGame
\* gives an absent result.
EnterAnalyzeGame_silent(t) ==
  /\ pc[t] = "call"
  /\ \/ /\ Unanalyzable(allGames[t], username)
        /\ ret' = [ret EXCEPT ![t] = Absent]
        /\ pc' = [pc EXCEPT ![t] = "release"]
        /\ UNCHANGED <<eng, spawned, nominal>>
     \/ /\ ~Unanalyzable(allGames[t], username)
        /\ \/ \* cmd.Start() fails: NewStockfishEngine returns the error
              /\ ret' = [ret EXCEPT ![t] = Absent]
              /\ pc' = [pc EXCEPT ![t] = "release"]
              /\ nominal' = FALSE
              /\ UNCHANGED <<eng, spawned>>
           \/ \* the subprocess runs
              /\ eng' = [eng EXCEPT ![t] = "live"]
              /\ spawned' = [spawned EXCEPT ![t] = @ + 1]
              /\ pc' = [pc EXCEPT ![t] = "uciok"]
              /\ UNCHANGED <<ret, nominal>>
  /\ UNCHANGED <<config, score, fetchVars, mainVars, shared, applied, pw, whiteAcc, blackAcc,
                 sent, startupEof, lastCall, bestmoves, collector>>

\* analyzeGame from its entry to cmd.Start() in NewStockfishEngine.
EnterAnalyzeGame(t) ==
  /\ pc[t] = "call"
  /\ \/ /\ Unanalyzable(allGames[t], username)
        /\ ret' = [ret EXCEPT ![t] = Absent]
        /\ pc' = [pc EXCEPT ![t] = "send"]
        /\ UNCHANGED <<eng, spawned, nominal>>
     \/ /\ ~Unanalyzable(allGames[t], username)
        /\ \/ \* cmd.Start() fails: NewStockfishEngine returns the error
              /\ ret' = [ret EXCEPT ![t] = Absent]
              /\ pc' = [pc EXCEPT ![t] = "send"]
              /\ nominal' = FALSE
              /\ UNCHANGED <<eng, spawned>>
           \/ \* the subprocess runs
              /\ eng' = [eng EXCEPT ![t] = "live"]
              /\ spawned' = [spawned EXCEPT ![t] = @ + 1]
              /\ pc' = [pc EXCEPT ![t] = "uciok"]
              /\ UNCHANGED <<ret, nominal>>
  /\ UNCHANGED <<config, score, fetchVars, mainVars, shared, applied, pw, whiteAcc, blackAcc,
                 sent, startupEof, lastCall, bestmoves, collector>>

\* Variant: a read on a silent engine gives up after a while.
Responsive_timeout(e) == e \in {"live", "closed", "hung"}

\* The goroutine can go on with its engine: the subprocess emits the lines
\* it is asked for, or its pipe is closed and every read returns an error.
\* There is no timeout: a read on a silent engine with an open pipe never
\* returns.
Responsive(e) == e \in {"live", "closed"}

\* What a blocking read loop can meet: the awaited line, a read error (the
\* pipe is closed), or an engine that emits nothing more and keeps the pipe
\* open.  A closed pipe gives the read error at once.
ReadOutcomes(e) == IF e = "closed" THEN {"eof"} ELSE {"line", "eof", "hang"}

\* waitForReady(token), after the commands cmds were written.
WaitForReady(t, cmds, nextPc) ==
  /\ Responsive(eng[t])
  /\ sent' = [sent EXCEPT ![t] = @ \o cmds]
  /\ \E o \in ReadOutcomes(eng[t]) :
       \/ /\ o = "line"
          /\ pc' = [pc EXCEPT ![t] = nextPc]
          /\ UNCHANGED <<eng, startupEof, nominal>>
       \/ /\ o = "eof"
          /\ eng' = [eng EXCEPT ![t] = "closed"]
          /\ startupEof' = [startupEof EXCEPT ![t] = TRUE]
          /\ nominal' = FALSE
          /\ pc' = [pc EXCEPT ![t] = nextPc]
       \/ /\ o = "hang"
          /\ eng' = [eng EXCEPT ![t] = "hung"]
          /\ nominal' = FALSE
          /\ UNCHANGED <<pc, startupEof>>
  /\ UNCHANGED <<config, score, fetchVars, mainVars, shared, gameVars, spawned, lastCall, bestmoves, collector>>

\* NewStockfishEngine: e.send("uci"); e.waitForReady("uciok")
WaitUciok(t) ==
  /\ pc[t] = "uciok"
  /\ WaitForReady(t, <<"uci">>, "readyok")

\* NewStockfishEngine: the two setoption commands, isready,
\* e.waitForReady("readyok"); return e, nil.
WaitReadyok(t) ==
  /\ pc[t] = "readyok"
  /\ WaitForReady(t, <<"setoption name Threads", "setoption name UCI_ShowWDL",
                       "isready">>, "seed")

\* Variant: only the seeding call stores the triple it returns; after a move
\* the previous triple is kept.
Analyze_stale(t, first, returns) ==
  /\ Responsive(eng[t])
  /\ sent' = [sent EXCEPT ![t] = @ \o <<"position fen", "go depth">>]
  /\ \/ \E out \in (IF eng[t] = "closed" THEN { <<>> } ELSE engineOutputs) :
          LET r == analyze(out)
          IN  /\ pw' = IF first THEN [pw EXCEPT ![t] = r.wdl] ELSE pw
              /\ eng' = [eng EXCEPT ![t] = IF r.end = "eof" THEN "closed" ELSE @]
              /\ lastCall' = IF t = 1
                                THEN [task |-> t, first |-> first, prev |-> pw[t],
                                      output |-> out, wdl |-> r.wdl, end |-> r.end]
                                ELSE lastCall
              /\ bestmoves' = [bestmoves EXCEPT
                                 ![t] = IF r.end = "bestmove" THEN @ + 1 ELSE @]
              /\ nominal' = (nominal /\ out \in FixedOutputs /\ eng[t] = "live")
              /\ returns
     \/ /\ eng[t] = "live"
        /\ eng' = [eng EXCEPT ![t] = "hung"]
        /\ nominal' = FALSE
        /\ UNCHANGED <<pc, pw, whiteAcc, blackAcc, lastCall, bestmoves>>
  /\ UNCHANGED <<config, score, fetchVars, mainVars, shared, ret, spawned, startupEof, collector>>

\* One call of analyze by goroutine t; `first` tells the call that seeds pw.
\* lastCall records the calls of the first game's goroutine.
\* The call returns with the triple in pw' (the caller assigns it to pw in
\* both places), or never returns.  `returns` is what the caller does then.
Analyze(t, first, returns) ==
  /\ Responsive(eng[t])
  /\ sent' = [sent EXCEPT ![t] = @ \o <<"position fen", "go depth">>]
  /\ \/ \E out \in (IF eng[t] = "closed" THEN { <<>> } ELSE engineOutputs) :
          LET r == analyze(out)
          IN  /\ pw' = [pw EXCEPT ![t] = r.wdl]
              /\ eng' = [eng EXCEPT ![t] = IF r.end = "eof" THEN "closed" ELSE @]
              /\ lastCall' = IF t = 1
                                THEN [task |-> t, first |-> first, prev |-> pw[t],
                                      output |-> out, wdl |-> r.wdl, end |-> r.end]
                                ELSE lastCall
              /\ bestmoves' = [bestmoves EXCEPT
                                 ![t] = IF r.end = "bestmove" THEN @ + 1 ELSE @]
              /\ nominal' = (nominal /\ out \in FixedOutputs /\ eng[t] = "live")
              /\ returns
     \/ /\ eng[t] = "live"
        /\ eng' = [eng EXCEPT ![t] = "hung"]
        /\ nominal' = FALSE
        /\ UNCHANGED <<pc, pw, whiteAcc, blackAcc, lastCall, bestmoves>>
  /\ UNCHANGED <<config, score, fetchVars, mainVars, shared, ret, spawned, startupEof, collector>>

\* analyzeGame: pos := chess.NewGame(); pw, pd, pl := engine.analyze(...)
Seed(t) ==
  /\ pc[t] = "seed"
  /\ applied' = [applied EXCEPT ![t] = 0]
  /\ Analyze(t, TRUE,
             /\ pc' = [pc EXCEPT ![t] = "moves"]
             /\ UNCHANGED <<whiteAcc, blackAcc>>)

\* One iteration of analyzeGame's loop over moves.
Move(t) ==
  /\ pc[t] = "moves"
  /\ applied[t] < allGames[t].pgn.n
  /\ applied' = [applied EXCEPT ![t] = @ + 1]
  /\ Analyze(t, FALSE,
             LET isWhite == MoverIsWhite(applied[t])
                 before == wdlToProb(pw[t][1], pw[t][2], pw[t][3], isWhite)
                 after == wdlToProb(pw'[t][1], pw'[t][2], pw'[t][3], isWhite)
                 entry == [acc |-> calcAccuracy(before, after), ply |-> applied[t] + 1]
             IN  /\ IF isWhite
                      THEN /\ whiteAcc' = [whiteAcc EXCEPT ![t] = Append(@, entry)]
                           /\ UNCHANGED blackAcc
                      ELSE /\ blackAcc' = [blackAcc EXCEPT ![t] = Append(@, entry)]
                           /\ UNCHANGED whiteAcc
                 /\ UNCHANGED pc)

\* Variant: analyzeGame returns without the deferred engine.quit().
QuitGame_mut(t) ==
  /\ pc[t] = "moves"
  /\ applied[t] = allGames[t].pgn.n
  /\ Responsive(eng[t])
  /\ ret' = [ret EXCEPT ![t] = GameResult(allGames[t], whiteAcc[t], blackAcc[t])]
  /\ pc' = [pc EXCEPT ![t] = "send"]
  /\ UNCHANGED <<config, score, fetchVars, mainVars, shared, applied, pw, whiteAcc, blackAcc,
                 engVars, collector>>

\* analyzeGame after the loop: the means and the move count are computed,
\* then the deferred engine.quit() runs up to e.send("quit").  The subprocess
\* obeys and exits, or ignores the command.
QuitGame(t) ==
  /\ pc[t] = "moves"
  /\ applied[t] = allGames[t].pgn.n
  /\ Responsive(eng[t])
  /\ ret' = [ret EXCEPT ![t] = GameResult(allGames[t], whiteAcc[t], blackAcc[t])]
  /\ sent' = [sent EXCEPT ![t] = Append(@, "quit")]
  /\ \E exits \in BOOLEAN :
       /\ eng' = [eng EXCEPT ![t] = IF exits THEN "exited" ELSE "hung"]
       /\ nominal' = (nominal /\ exits)
  /\ pc' = [pc EXCEPT ![t] = "wait"]
  /\ UNCHANGED <<config, score, fetchVars, mainVars, shared, applied, pw, whiteAcc, blackAcc,
                 spawned, startupEof, lastCall, bestmoves, collector>>

\* quit: e.cmd.Wait() returns once the subprocess has exited; analyzeGame
\* returns to the goroutine and its locals are gone.
WaitExit(t) ==
  /\ pc[t] = "wait"
  /\ eng[t] = "exited"
  /\ eng' = [eng EXCEPT ![t] = "reaped"]
  /\ pc' = [pc EXCEPT ![t] = "send"]
  /\ applied' = [applied EXCEPT ![t] = 0]
  /\ pw' = [pw EXCEPT ![t] = DefaultWDL]
  /\ whiteAcc' = [whiteAcc EXCEPT ![t] = <<>>]
  /\ blackAcc' = [blackAcc EXCEPT ![t] = <<>>]
  /\ UNCHANGED <<config, score, fetchVars, mainVars, shared, ret, sent, spawned, startupEof,
                 lastCall, bestmoves, nominal, collector>>

\* results <- result{...}
SendResult(t) ==
  /\ pc[t] = "send"
  /\ Len(results) < total
  /\ ~closed
  /\ results' = Append(results, ret[t])
  /\ pc' = [pc EXCEPT ![t] = "count"]
  /\ UNCHANGED <<config, score, fetchVars, mainVars, sem, wg, completed, obtained, progress, closed,
                 gameVars, engVars, collector>>

\* Variant: the progress line uses the value the counter had before the add.
Count_stale(t) ==
  /\ pc[t] = "count"
  /\ LET c == completed
     IN  /\ completed' = completed + 1
         /\ obtained' = Append(obtained, c)
         /\ progress' = IF c % 10 = 0 \/ c = total THEN Append(progress, c) ELSE progress
  /\ pc' = [pc EXCEPT ![t] = "release"]
  /\ UNCHANGED <<config, score, fetchVars, mainVars, sem, wg, results, closed, gameVars, engVars, collector>>

\* c := atomic.AddInt64(&completed, 1) and the progress line.
Count(t) ==
  /\ pc[t] = "count"
  /\ LET c == completed + 1
     IN  /\ completed' = c
         /\ obtained' = Append(obtained, c)
         /\ progress' = IF c % 10 = 0 \/ c = total THEN Append(progress, c) ELSE progress
  /\ pc' = [pc EXCEPT ![t] = "release"]
  /\ UNCHANGED <<config, score, fetchVars, mainVars, sem, wg, results, closed, gameVars, engVars, collector>>

\* The deferred func() { <-sem }()
Release(t) ==
  /\ pc[t] = "release"
  /\ sem > 0
  /\ sem' = sem - 1
  /\ pc' = [pc EXCEPT ![t] = "wgdone"]
  /\ UNCHANGED <<config, score, fetchVars, mainVars, wg, completed, obtained, progress, results, closed,
                 gameVars, engVars, collector>>

\* The deferred wg.Done()
WgDone(t) ==
  /\ pc[t] = "wgdone"
  /\ wg' = wg - 1
  /\ pc' = [pc EXCEPT ![t] = "done"]
  /\ UNCHANGED <<config, score, fetchVars, mainVars, sem, completed, obtained, progress, results, closed,
                 gameVars, engVars, collector>>

Next ==
  \/ FetchArchives
  \/ FetchGames
  \/ StartAnalysis
  \/ Launch
  \/ StartCloser
  \/ CloseResults
  \/ Collect
  \/ CollectDone
  \/ \E t \in Tasks : Acquire(t)
  \/ \E t \in Tasks : EnterAnalyzeGame(t)
  \/ \E t \in Tasks : WaitUciok(t)
  \/ \E t \in Tasks : WaitReadyok(t)
  \/ \E t \in Tasks : Seed(t)
  \/ \E t \in Tasks : Move(t)
  \/ \E t \in Tasks : QuitGame(t)
  \/ \E t \in Tasks : WaitExit(t)
  \/ \E t \in Tasks : SendResult(t)
  \/ \E t \in Tasks : Count(t)
  \/ \E t \in Tasks : Release(t)
  \/ \E t \in Tasks : WgDone(t)

Spec == Init /\ [][Next]_vars

\* ------------------------------------------------------ scoring functions
\* The scoring functions called on their own, over a grid of arguments.
\* The components of a WDL triple: the multiples of 100 up to 1000, the
\* values of the default triple and the values next to the ends.
WdlValues == { 100 * i : i \in 0..10 } \cup {1, 333, 334, 999}

\* The triples that sum to 1000, as an engine reports them.
Triples ==
  { t \in WdlValues \X WdlValues \X WdlValues : t[1] + t[2] + t[3] = 1000 }

\* The probabilities of those triples, and two values above 1.
Probs ==
  { wdlToProb(t[1], t[2], t[3], TRUE) : t \in Triples } \cup {2500, 3000}

\* The calls of the scoring functions: wdlToProb on any three components,
\* calcAccuracy on any two probabilities.
ScorerCalls ==
  { [op |-> "wdlToProb", w |-> w, d |-> d, l |-> l, isWhite |-> isWhite,
     before |-> 0, after |-> 0, returned |-> FALSE, out |-> 0] :
      w \in WdlValues, d \in WdlValues, l \in WdlValues, isWhite \in BOOLEAN }
  \cup
  { [op |-> "calcAccuracy", w |-> 0, d |-> 0, l |-> 0, isWhite |-> TRUE,
     before |-> before, after |-> after, returned |-> FALSE, out |-> 0] :
      before \in Probs, after \in Probs }

\* wdlToProb returns.
ApplyWdlToProb ==
  /\ score.op = "wdlToProb"
  /\ ~score.returned
  /\ score' = [score EXCEPT !.returned = TRUE,
                            !.out = wdlToProb(score.w, score.d, score.l, score.isWhite)]
  /\ UNCHANGED <<config, fetchVars, mainVars, shared, pc, gameVars, engVars, collector>>

\* calcAccuracy returns.
ApplyCalcAccuracy ==
  /\ score.op = "calcAccuracy"
  /\ ~score.returned
  /\ score' = [score EXCEPT !.returned = TRUE,
                            !.out = calcAccuracy(score.before, score.after)]
  /\ UNCHANGED <<config, fetchVars, mainVars, shared, pc, gameVars, engVars, collector>>

\* No game: one call of a scoring function.
ScorerInit ==
  /\ username = ""
  /\ workers = 1
  /\ remote = <<>>
  /\ engineKind = "fixed"
  /\ Start
  /\ score \in ScorerCalls

ScorerNext == ApplyWdlToProb \/ ApplyCalcAccuracy

ScorerSpec == ScorerInit /\ [][ScorerNext]_vars

\* ------------------------------------------- the batch under fair scheduling
\* A step in which no engine leaves a request unanswered: an engine stops
\* emitting with its pipe open only after the quit command.
Answered ==
  \A t \in DOMAIN eng : (eng[t] # "hung" /\ eng'[t] = "hung") => pc'[t] = "wait"

\* The steps of main's own goroutine.
MainStep ==
  \/ FetchArchives
  \/ FetchGames
  \/ StartAnalysis
  \/ Launch
  \/ StartCloser
  \/ Collect
  \/ CollectDone

\* The steps of the goroutine of game t.
TaskStep(t) ==
  /\ t \in Tasks
  /\ \/ Acquire(t)
     \/ EnterAnalyzeGame(t)
     \/ WaitUciok(t)
     \/ WaitReadyok(t)
     \/ Seed(t)
     \/ Move(t)
     \/ QuitGame(t)
     \/ WaitExit(t)
     \/ SendResult(t)
     \/ Count(t)
     \/ Release(t)
     \/ WgDone(t)

\* A batch of up to MaxGames records with at least one worker.
LiveInit ==
  /\ username = "hikaru"
  /\ workers \in 1..MaxWorkers
  /\ remote \in Listings
  /\ engineKind = "batch"
  /\ Start
  /\ score = NoScore

LiveNext ==
  \/ MainStep
  \/ CloseResults
  \/ \E t \in Tasks : Acquire(t) /\ Answered
  \/ \E t \in Tasks : EnterAnalyzeGame(t) /\ Answered
  \/ \E t \in Tasks : WaitUciok(t) /\ Answered
  \/ \E t \in Tasks : WaitReadyok(t) /\ Answered
  \/ \E t \in Tasks : Seed(t) /\ Answered
  \/ \E t \in Tasks : Move(t) /\ Answered
  \/ \E t \in Tasks : QuitGame(t) /\ Answered
  \/ \E t \in Tasks : WaitExit(t) /\ Answered
  \/ \E t \in Tasks : SendResult(t) /\ Answered
  \/ \E t \in Tasks : Count(t) /\ Answered
  \/ \E t \in Tasks : Release(t) /\ Answered
  \/ \E t \in Tasks : WgDone(t) /\ Answered

\* The Go scheduler runs every goroutine that can run; a goroutine blocked on
\* a channel operation is queued and served in turn when the operation
\* becomes possible.
Fairness ==
  /\ WF_vars(MainStep)
  /\ WF_vars(CloseResults)
  /\ \A t \in 1..MaxGames : SF_vars(TaskStep(t) /\ Answered)

LiveSpec == LiveInit /\ [][LiveNext]_vars /\ Fairness

\* ================================================================= claims
\* An engine session is live from the start of its subprocess until quit
\* has returned.
Live(t) == eng[t] \in {"live", "closed", "hung", "exited"}

LiveSessions == Cardinality({t \in Tasks : Live(t)})

\* analyzeGame has returned to the goroutine.
Returned(t) == pc[t] \in {"send", "count", "release", "wgdone", "done"}

\* C1: with workers >= 1, in every reachable state the number of live engine
\* sessions is at most workers.
C1_LiveSessionsBounded == workers >= 1 => LiveSessions <= workers

\* C1 witness: every slot is taken by a live session while another game
\* goroutine waits for a slot.
C1_Witness ==
  /\ workers >= 1
  /\ LiveSessions = workers
  /\ \E t \in Tasks : pc[t] = "sem"

\* The three words after the first marker of a line that has at least three.
FieldsOf(line) ==
  LET k == CHOOSE i \in 1..Len(line) : line[i] = "wdl" /\ \A j \in 1..(i - 1) : line[j] # "wdl"
  IN  << line[k + 1], line[k + 2], line[k + 3] >>

\* The word wdl occurs in the line.
HasMarker(line) == \E i \in 1..Len(line) : line[i] = "wdl"

\* The marker occurs after the first word and at least three words follow it.
HasThreeFields(line) ==
  \E i \in 2..Len(line) :
    /\ line[i] = "wdl"
    /\ \A j \in 1..(i - 1) : line[j] # "wdl"
    /\ Len(line) >= i + 3

IsInteger(word) == word \in {"0", "100", "500", "800", "1000"}

ValueOf(word) ==
  CASE word = "0" -> 0 [] word = "100" -> 100 [] word = "500" -> 500
    [] word = "800" -> 800 [] word = "1000" -> 1000

\* A well-formed WDL line: three integers after the marker.
WellFormedWdl(line) ==
  /\ HasThreeFields(line)
  /\ \A j \in 1..3 : IsInteger(FieldsOf(line)[j])

\* The latest analyze call read only well-formed WDL lines, at least one,
\* and then a bestmove line without marker.
OnlyWellFormedWdl(call) ==
  /\ call.task # 0
  /\ Len(call.output) >= 2
  /\ IsBestmove(call.output[Len(call.output)])
  /\ ~HasMarker(call.output[Len(call.output)])
  /\ \A i \in 1..(Len(call.output) - 1) :
       WellFormedWdl(call.output[i]) /\ ~IsBestmove(call.output[i])

\* C2: an analyze call that reads well-formed WDL lines and then bestmove
\* returns the three integers of the last WDL line.
C2_LastWdlLineWins ==
  OnlyWellFormedWdl(lastCall) =>
    LET f == FieldsOf(lastCall.output[Len(lastCall.output) - 1])
    IN  lastCall.wdl = << ValueOf(f[1]), ValueOf(f[2]), ValueOf(f[3]) >>

\* The latest analyze call read no line that bears the marker, and ended on
\* a bestmove line.
NoWdlLine(call) ==
  /\ call.task # 0
  /\ call.end = "bestmove"
  /\ \A i \in 1..Len(call.output) : ~HasMarker(call.output[i])

\* C3: an analyze call that reads no WDL-bearing line before bestmove
\* returns (333, 334, 333), whatever the earlier call on the session returned.
C3_NoWdlGivesDefault ==
  NoWdlLine(lastCall) =>
    /\ lastCall.wdl = <<333, 334, 333>>
    /\ pc[lastCall.task] = "moves" => pw[lastCall.task] = <<333, 334, 333>>

\* C3 witness: a call without WDL line, after a call on the same session
\* that returned another triple.
C3_Witness ==
  /\ NoWdlLine(lastCall)
  /\ ~lastCall.first
  /\ lastCall.prev # <<333, 334, 333>>
  /\ Len(lastCall.output) >= 2
  /\ pc[lastCall.task] = "moves"

\* C4: when the pipe closes before the awaited token of the handshake, the
\* game is not evaluated (no position is written) and analyzeGame returns
\* an absent result.
C4_StartupFailureSkipsGame ==
  \A t \in Tasks :
    startupEof[t] =>
      /\ \A i \in 1..Len(sent[t]) : sent[t][i] # "position fen"
      /\ Returned(t) => ~ret[t].ok

\* The triple the claim C5 gives after a line with three fields: the integer
\* fields are taken, a malformed field leaves its component as held.
ClaimedUpdate(held, line) ==
  LET f == FieldsOf(line)
  IN  [j \in 1..3 |-> IF IsInteger(f[j]) THEN ValueOf(f[j]) ELSE held[j]]

\* The line has three fields after the marker and one of them is malformed.
MalformedWdl(line) ==
  /\ HasThreeFields(line)
  /\ \E j \in 1..3 : ~IsInteger(FieldsOf(line)[j])

\* C5: when the last line before bestmove is a WDL line with a malformed
\* field, analyze returns the triple held before that line with the line's
\* integer fields taken, and it has read on to bestmove.
C5_MalformedFieldKeepsHeld ==
  LET out == lastCall.output
      n == Len(out)
  IN  (/\ lastCall.task # 0
       /\ n >= 2
       /\ IsBestmove(out[n])
       /\ MalformedWdl(out[n - 1]))
      => /\ lastCall.end = "bestmove"
         /\ lastCall.wdl =
              ClaimedUpdate(ReadLoop(<<333, 334, 333>>, SubSeq(out, 1, n - 2), 1).wdl,
                            out[n - 1])

\* C6: a game goroutine starts at most one engine session; once analyzeGame
\* has returned, hence before the slot is released, the session it created
\* has been quit; no session is live before analyzeGame is called, nor when
\* the batch has completed.
C6_SessionShutDown ==
  /\ \A t \in Tasks :
       /\ spawned[t] <= 1
       /\ pc[t] \in {"unborn", "sem", "call"} => eng[t] = "none"
       /\ Returned(t) => ~Live(t)
       /\ (Returned(t) /\ spawned[t] = 1) =>
            (eng[t] = "reaped" /\ sent[t][Len(sent[t])] = "quit")
  /\ mainPc = "done" => LiveSessions = 0

\* C6 witness: the batch has completed and a session was created in it.
C6_Witness ==
  /\ mainPc = "done"
  /\ \E t \in Tasks : spawned[t] = 1

\* C7: once quit has written its command the subprocess has exited or has
\* been terminated, so cmd.Wait() returns.
C7_QuitAlwaysReturns ==
  \A t \in Tasks : pc[t] = "wait" => eng[t] = "exited"

\* Equality of two names without regard to case.
SameName(a, b) ==
  LET lower(x) ==
        CASE x \in {"hikaru", "Hikaru", "HIKARU"} -> "hikaru"
          [] x \in {"magnus", "Magnus"} -> "magnus"
          [] OTHER -> x
  IN  lower(a) = lower(b)

\* The record has no PGN text, or the target user is neither player (a
\* missing player counts as the empty name).
FilteredOut(g, user) ==
  \/ g.pgn.kind = "empty"
  \/ /\ ~SameName(IF g.white = NoPlayer THEN "" ELSE g.white, user)
     /\ ~SameName(IF g.black = NoPlayer THEN "" ELSE g.black, user)

\* C8: for a record without PGN text or without the target user, no engine
\* session is started, no command is written, and analyzeGame returns an
\* absent result.
C8_FilteredGamesAbsent ==
  \A t \in Tasks :
    FilteredOut(allGames[t], username) =>
      /\ spawned[t] = 0
      /\ eng[t] = "none"
      /\ sent[t] = <<>>
      /\ pc[t] \in {"unborn", "sem", "call"} \/ Returned(t)
      /\ Returned(t) => ~ret[t].ok

\* C8 witness: analyzeGame has returned for a record with moves whose
\* players are both other than the target user.
C8_Witness ==
  \E t \in Tasks :
    /\ FilteredOut(allGames[t], username)
    /\ allGames[t].pgn.kind = "moves"
    /\ allGames[t].pgn.n > 0
    /\ pc[t] = "send"

\* C9: for a game of n half-moves that was analyzed, there are (n+1) div 2
\* white entries and n div 2 black entries, the white entries score the odd
\* plies and the black entries the even plies, in order, and totalMoves = n.
C9_EntriesPerSide ==
  \A t \in Tasks :
    /\ \A k \in 1..Len(whiteAcc[t]) : whiteAcc[t][k].ply = 2 * k - 1
    /\ \A k \in 1..Len(blackAcc[t]) : blackAcc[t][k].ply = 2 * k
    /\ pc[t] = "wait" =>
         /\ Len(whiteAcc[t]) = (allGames[t].pgn.n + 1) \div 2
         /\ Len(blackAcc[t]) = allGames[t].pgn.n \div 2
    /\ (pc[t] = "wait" \/ (Returned(t) /\ ret[t].ok)) =>
         /\ ret[t].ok
         /\ ret[t].moves = allGames[t].pgn.n

\* C9 witness: a game of four half-moves has been scored.
C9_Witness ==
  \E t \in Tasks :
    /\ pc[t] = "wait"
    /\ allGames[t].pgn.n = 4
    /\ Len(whiteAcc[t]) = 2
    /\ Len(blackAcc[t]) = 2
    /\ ret[t].moves = 4

\* The batch of the end-to-end scenario.
E2EBatch ==
  /\ total = 3
  /\ username = "hikaru"
  /\ \E i \in 1..3 : allGames[i] = GameData(EmptyPGN, "Hikaru", "Magnus")
  /\ \E i \in 1..3 : allGames[i] = GameData(MovesPGN(2), "Magnus", NoPlayer)
  /\ \E i \in 1..3 : allGames[i] = GameData(MovesPGN(2), "Hikaru", "Magnus")

\* C10: for the end-to-end batch and an engine that answers every request
\* with WDL (500, 0, 500), the completed batch has collected three records,
\* exactly one of them analyzed, with white accuracy 100.0 and totalMoves 2.
C10_EndToEnd ==
  (mainPc = "done" /\ E2EBatch /\ nominal) =>
    /\ received = 3
    /\ analyzed = 1
    /\ totalMoves = 2
    /\ Len(userAcc) = 1
    /\ userAcc[1].sum = 1000 * userAcc[1].n
    /\ \A t \in Tasks :
         /\ ret[t].ok <=> allGames[t] = GameData(MovesPGN(2), "Hikaru", "Magnus")
         /\ ret[t].ok => (ret[t].wa.sum = 1000 * ret[t].wa.n /\ ret[t].moves = 2)

\* C10 witness: the end-to-end batch has completed with a nominal engine.
C10_Witness ==
  /\ mainPc = "done"
  /\ E2EBatch
  /\ nominal
  /\ analyzed = 1

\* C11: for a game of the target user whose PGN has k legal half-moves and
\* then an illegal or unreadable move, with an engine that starts and
\* answers, analyzeGame returns a present result built from the k moves
\* before the bad one.
C11_IllegalMoveKeepsPartial ==
  \A t \in Tasks :
    (/\ Returned(t)
     /\ allGames[t].pgn.kind = "illegal"
     /\ ~FilteredOut(allGames[t], username)
     /\ nominal) =>
      /\ ret[t].ok
      /\ ret[t].moves = allGames[t].pgn.n

\* The number of go commands in a command log.
NumGo(cmds) == Cardinality({i \in 1..Len(cmds) : cmds[i] = "go depth"})

\* C12: on every session, a go command is written only when the bestmove
\* line of every earlier go command of that session has been read: at most
\* one search request is outstanding.
C12_OneOutstandingRequest ==
  \A t \in Tasks : NumGo(sent[t]) <= bestmoves[t] + 1

\* C13: for every triple of non-negative integers that sums to 1000,
\* wdlToProb for Black equals wdlToProb for White of the triple with win
\* and loss exchanged.
C13_BlackIsMirroredWhite ==
  (/\ score.op = "wdlToProb"
   /\ score.returned
   /\ ~score.isWhite
   /\ score.w + score.d + score.l = 1000) =>
    score.out = wdlToProb(score.l, score.d, score.w, TRUE)

\* C13 witness: wdlToProb was called for Black on a triple with different
\* win and loss counts.
C13_Witness ==
  /\ score.op = "wdlToProb"
  /\ score.returned
  /\ ~score.isWhite
  /\ score.w = 700 /\ score.d = 200 /\ score.l = 100
  /\ score.out = 400

\* C14: wdlToProb is (win + draw/2)/1000 with win the loss count for Black
\* (2 * win + draw in units of 1/2000); for a triple that sums to 1000 it
\* lies in [0, 1]; it is 1.0 for (1000, 0, 0) and White, 0.0 for
\* (0, 0, 1000) and White, 0.5 for (0, 1000, 0) and either side.
C14_ProbValues ==
  (score.op = "wdlToProb" /\ score.returned) =>
    /\ score.out = 2 * (IF score.isWhite THEN score.w ELSE score.l) + score.d
    /\ score.w + score.d + score.l = 1000 => (0 <= score.out /\ score.out <= 2000)
    /\ (<<score.w, score.d, score.l>> = <<1000, 0, 0>> /\ score.isWhite) => score.out = 2000
    /\ (<<score.w, score.d, score.l>> = <<0, 0, 1000>> /\ score.isWhite) => score.out = 0
    /\ <<score.w, score.d, score.l>> = <<0, 1000, 0>> => score.out = 1000

\* C14 witness: wdlToProb was called for Black on (0, 1000, 0).
C14_Witness ==
  /\ score.op = "wdlToProb"
  /\ score.returned
  /\ ~score.isWhite
  /\ <<score.w, score.d, score.l>> = <<0, 1000, 0>>
  /\ score.out = 1000

\* C15: calcAccuracy is 100 when after >= before, else
\* max(0, 100 * (1 - 2 * (before - after))) (in tenths of a point, with the
\* probabilities in units of 1/2000: 1000 - (before - after)); it is 0
\* exactly when the drop is 0.5 or more; it lies in [0, 100];
\* calcAccuracy(0.9, 0.3) = 0 and calcAccuracy(p, p) = 100.
C15_AccuracyValues ==
  (score.op = "calcAccuracy" /\ score.returned) =>
    LET drop == score.before - score.after
    IN  /\ score.after >= score.before => score.out = 1000
        /\ score.after < score.before =>
              score.out = (IF 1000 - drop > 0 THEN 1000 - drop ELSE 0)
        /\ score.out = 0 <=> drop >= 1000
        /\ 0 <= score.out /\ score.out <= 1000
        /\ (score.before = 1800 /\ score.after = 600) => score.out = 0
        /\ drop = 0 => score.out = 1000

\* C15 witness: calcAccuracy(0.9, 0.3) was called and returned 0.
C15_Witness ==
  /\ score.op = "calcAccuracy"
  /\ score.returned
  /\ score.before = 1800
  /\ score.after = 600
  /\ score.out = 0

\* The total of the accuracies of a list of entries.
RECURSIVE TotalOf(_)
TotalOf(entries) ==
  IF Len(entries) = 0 THEN 0
  ELSE entries[Len(entries)].acc + TotalOf(SubSeq(entries, 1, Len(entries) - 1))

\* The reported mean m is the mean the claim gives for the entries: 0 for
\* no entry, else their total divided by their number (never a division by
\* zero).
ClaimedMean(m, entries) ==
  /\ m.n >= 1
  /\ Len(entries) = 0 => m.sum = 0
  /\ Len(entries) > 0 => (m.sum = TotalOf(entries) /\ m.n = Len(entries))

\* C16: when analyzeGame has computed its result, the mean of a side with no
\* scored move is 0, the mean of a side with scored moves is the arithmetic
\* mean of its entries, and totalMoves is the number of white entries plus
\* the number of black entries.
C16_MeansAndCount ==
  \A t \in Tasks :
    pc[t] = "wait" =>
      /\ ret[t].ok
      /\ ClaimedMean(ret[t].wa, whiteAcc[t])
      /\ ClaimedMean(ret[t].ba, blackAcc[t])
      /\ ret[t].moves = Len(whiteAcc[t]) + Len(blackAcc[t])

\* C16 witness: the result of a game of one half-move, Black without a
\* scored move.
C16_Witness ==
  \E t \in Tasks :
    /\ pc[t] = "wait"
    /\ Len(whiteAcc[t]) = 1
    /\ Len(blackAcc[t]) = 0
    /\ ret[t].ba.sum = 0
    /\ ret[t].wa.sum = whiteAcc[t][1].acc
    /\ ret[t].moves = 1

\* The goroutine holds a slot of sem: from its send on sem to its receive.
HoldsSlot(t) ==
  pc[t] \in {"call", "uciok", "readyok", "seed", "moves", "wait", "send", "count",
             "release"}

\* The goroutine has sent its record on results.
Delivered(t) == pc[t] \in {"count", "release", "wgdone", "done"}

\* The record is a game with moves in which the target user plays.
Playable(t) ==
  /\ allGames[t].pgn.kind = "moves"
  /\ allGames[t].pgn.n > 0
  /\ ~FilteredOut(allGames[t], username)

\* analyzeGame went past its checks for a playable game and no subprocess
\* was started: cmd.Start failed.
SpawnFailed(t) ==
  /\ Playable(t)
  /\ pc[t] \notin {"unborn", "sem", "call"}
  /\ spawned[t] = 0

\* The PGN text of the game cannot be parsed.
ParseFailed(t) == allGames[t].pgn.kind = "unparseable"

\* C17: a game whose PGN cannot be parsed or whose engine cannot be spawned
\* yields an absent record and leaves no session; every goroutine past its
\* send has delivered one record and sem holds exactly the goroutines between
\* acquire and release; when the batch is done every record was collected
\* and every playable game whose engine started is analyzed.
C17_FailureContained ==
  /\ \A t \in Tasks :
       (ParseFailed(t) \/ SpawnFailed(t)) =>
         /\ eng[t] = "none"
         /\ Returned(t) => ~ret[t].ok
         /\ pc[t] \in {"unborn", "sem", "call"} \/ Returned(t)
  /\ sem = Cardinality({t \in Tasks : HoldsSlot(t)})
  /\ received + Len(results) = Cardinality({t \in Tasks : Delivered(t)})
  /\ mainPc = "done" =>
       /\ received = total
       /\ sem = 0
       /\ \A t \in Tasks : (Playable(t) /\ ~SpawnFailed(t)) => ret[t].ok
       /\ analyzed = Cardinality({t \in Tasks : Playable(t) /\ ~SpawnFailed(t)})

\* C17 witness: the batch is done, the engine of one game could not be
\* spawned, and another game was analyzed and collected.
C17_Witness ==
  /\ mainPc = "done"
  /\ \E t \in Tasks, u \in Tasks :
       /\ SpawnFailed(t)
       /\ ~ret[t].ok
       /\ Playable(u)
       /\ ret[u].ok
  /\ analyzed = 1
  /\ received = 2

\* C18: after a request for the archive listing or for a game listing has
\* failed, or its JSON could not be decoded, the run is aborted: main does
\* not go on to the analysis phase.
C18_FetchFailureAborts ==
  fetchFailed => mainPc \in {"archives", "games"}

\* The number of entries of a sequence that equal v.
Occurrences(seq, v) == Cardinality({i \in 1..Len(seq) : seq[i] = v})

\* main has fetched the records and set total: the analysis phase.
Analysing == mainPc \in {"launch", "collect", "done"}

\* The goroutine has added 1 to the completion counter.
Counted(t) == pc[t] \in {"release", "wgdone", "done"}

\* C19: every goroutine that has incremented the completion counter obtained
\* one value, the values obtained so far are 1..completed, each once; when
\* every goroutine is done the counter equals total; the progress line with
\* count = total is printed at most once, and exactly once when the counter
\* has reached total (total >= 1).
C19_CounterAtomic ==
  /\ Len(obtained) = Cardinality({t \in Tasks : Counted(t)})
  /\ completed = Len(obtained)
  /\ \A v \in 1..completed : Occurrences(obtained, v) = 1
  /\ \A i \in 1..Len(obtained) : obtained[i] \in 1..total
  /\ (Analysing /\ \A t \in Tasks : pc[t] = "done") => completed = total
  /\ Occurrences(progress, total) <= 1
  /\ (Analysing /\ total >= 1 /\ completed = total) =>
       Occurrences(progress, total) = 1

\* C19 witness: two goroutines have incremented the counter, the values 1
\* and 2 were obtained and the final progress line was printed once.
C19_Witness ==
  /\ total = 2
  /\ \A t \in Tasks : Counted(t)
  /\ completed = 2
  /\ obtained = <<1, 2>>
  /\ progress = <<2>>

\* The sum of the move counts returned for the games of S that were
\* analyzed.
RECURSIVE MovesOf(_)
MovesOf(S) ==
  IF S = {} THEN 0
  ELSE LET t == CHOOSE x \in S : TRUE
       IN  (IF ret[t].ok THEN ret[t].moves ELSE 0) + MovesOf(S \ {t})

\* C20: every goroutine sends one record: the records collected and those
\* waiting in results are as many as the goroutines past their send, never
\* more than total; when the collecting loop has ended, every game gave one
\* record, analyzed is the number of ok records, the other records are the
\* skipped games, and totalMoves is the sum of the move counts of the ok
\* records.
C20_Aggregation ==
  /\ received + Len(results) = Cardinality({t \in Tasks : Delivered(t)})
  /\ analyzed <= received
  /\ Len(userAcc) = analyzed
  /\ mainPc = "done" =>
       /\ \A t \in Tasks : pc[t] = "done"
       /\ results = <<>>
       /\ received = total
       /\ analyzed = Cardinality({t \in Tasks : ret[t].ok})
       /\ received - analyzed = Cardinality({t \in Tasks : ~ret[t].ok})
       /\ totalMoves = MovesOf(Tasks)

\* C20 witness: a batch of two games is done; the first game could not be
\* parsed and was skipped, the second was analyzed and its moves are counted.
C20_Witness ==
  /\ mainPc = "done"
  /\ total = 2
  /\ ParseFailed(1)
  /\ ret[2].ok
  /\ analyzed = 1
  /\ received = 2
  /\ totalMoves = ret[2].moves
  /\ totalMoves > 0

\* C21: with workers >= 1, under fair scheduling and with every engine
\* request answered, the batch terminates: eventually every goroutine is
\* done, results is closed and the collecting loop has ended.
C21_BatchTerminates ==
  <>(mainPc = "done" /\ closed /\ \A t \in Tasks : pc[t] = "done")

\* The commands of the handshake, in the order NewStockfishEngine writes
\* them.
Handshake == <<"uci", "setoption name Threads", "setoption name UCI_ShowWDL", "isready">>

\* C22: on every session the commands start with the handshake in order, a
\* position or go command is written only after a readyok line has been
\* read, and quit is the last command.
C22_CommandOrder ==
  \A t \in Tasks :
    /\ \A i \in 1..Len(sent[t]) : i <= Len(Handshake) => sent[t][i] = Handshake[i]
    /\ \A i \in 1..Len(sent[t]) :
         sent[t][i] \in {"position fen", "go depth"} =>
           (i > Len(Handshake) /\ ~startupEof[t])
    /\ \A i \in 1..Len(sent[t]) : sent[t][i] = "quit" => i = Len(sent[t])

\* C23: every analyze call that has returned read a line starting with
\* bestmove for its request.
C23_ReturnsOnlyOnBestmove ==
  lastCall.task # 0 => lastCall.end = "bestmove"

\* The games whose engine is silent with its pipe open.
Hung == {t \in Tasks : eng[t] = "hung"}

\* C24: a goroutine whose engine is silent with its pipe open never moves
\* again and keeps its slot; while there is one, results is not closed and
\* the collecting loop has not ended; as long as fewer than workers engines
\* are silent and a game is unfinished, some goroutine can take a step.
C24_HungTaskBlocksBatch ==
  /\ [](\A t \in Hung :
          /\ HoldsSlot(t)
          /\ ~Returned(t)
          /\ sem >= 1
          /\ wg >= 1
          /\ ~closed
          /\ mainPc # "done")
  /\ [][\A t \in DOMAIN eng :
          eng[t] = "hung" => (eng'[t] = "hung" /\ pc'[t] = pc[t])]_vars
  /\ []((/\ Hung # {}
         /\ Cardinality(Hung) < workers
         /\ \E t \in Tasks : pc[t] # "done" /\ t \notin Hung)
        => ENABLED (Launch \/ \E t \in Tasks : TaskStep(t)))

\* C24 witness: with two workers, the engine of one game is silent in the
\* middle of an evaluation and the goroutine of the other game is done.
C24_Witness ==
  /\ workers = 2
  /\ \E t \in Tasks, u \in Tasks :
       /\ eng[t] = "hung"
       /\ pc[t] \in {"seed", "moves"}
       /\ pc[u] = "done"
       /\ ret[u].ok
  /\ ~closed
  /\ mainPc = "collect"

\* The accuracy the claim gives for a move by the side isWhite, from the
\* triples returned for the positions before and after it.
ClaimedAccuracy(prevWdl, curWdl, isWhite) ==
  calcAccuracy(wdlToProb(prevWdl[1], prevWdl[2], prevWdl[3], isWhite),
               wdlToProb(curWdl[1], curWdl[2], curWdl[3], isWhite))

\* C25: in every step of the first game's goroutine that scores its move
\* number k, the triple for the position before the move is the one the
\* preceding analyze call returned (the seeding call for k = 1), the entry
\* appended for the mover's side is the accuracy from that triple and the
\* triple returned for the position after the move, and the previous triple
\* becomes the returned one.
C25_AccuracyFromAdjacentPositions ==
  [][\A t \in DOMAIN pc \cap {1} :
       (/\ pc[t] = "moves"
        /\ Len(whiteAcc'[t]) + Len(blackAcc'[t]) = Len(whiteAcc[t]) + Len(blackAcc[t]) + 1)
       => LET k == applied[t] + 1
              isWhite == (k % 2 = 1)
              grown == IF isWhite THEN whiteAcc'[t] ELSE blackAcc'[t]
              entry == grown[Len(grown)]
          IN  /\ Len(grown) = (k + 1) \div 2
              /\ entry.ply = k
              /\ lastCall.task = t
              /\ lastCall.first <=> k = 1
              /\ lastCall'.prev = lastCall.wdl
              /\ ~lastCall'.first
              /\ entry.acc = ClaimedAccuracy(lastCall.wdl, lastCall'.wdl, isWhite)
              /\ pw'[t] = lastCall'.wdl]_vars

\* C25 witness: the third move of the first game has been scored, and the
\* entry of Black's move shows a loss of accuracy.
C25_Witness ==
  /\ 1 \in Tasks
  /\ pc[1] = "moves"
  /\ applied[1] = 3
  /\ Len(whiteAcc[1]) = 2
  /\ Len(blackAcc[1]) = 1
  /\ blackAcc[1][1].acc < 1000
  /\ lastCall.wdl = pw[1]

\* The lines an analyze call read: those up to the first bestmove line.
LinesRead(call) ==
  LET ends == {i \in 1..Len(call.output) : IsBestmove(call.output[i])}
  IN  IF ends = {} THEN call.output
      ELSE SubSeq(call.output, 1, CHOOSE i \in ends : \A j \in ends : i <= j)

\* Every fully numeric WDL line of the output sums to 1000.
NumericLinesSumTo1000(call) ==
  \A i \in 1..Len(call.output) :
    WellFormedWdl(call.output[i]) =>
      LET f == FieldsOf(call.output[i])
      IN  ValueOf(f[1]) + ValueOf(f[2]) + ValueOf(f[3]) = 1000

\* A further field follows the third field of the WDL line.
HasFurtherField(line) ==
  \E i \in 2..Len(line) :
    /\ line[i] = "wdl"
    /\ \A j \in 1..(i - 1) : line[j] # "wdl"
    /\ Len(line) >= i + 4

\* The triple is three non-negative integers that sum to 1000.
IsPermille(wdl) ==
  /\ \A j \in 1..3 : wdl[j] >= 0
  /\ wdl[1] + wdl[2] + wdl[3] = 1000

FullyTaken(line) == WellFormedWdl(line) /\ HasFurtherField(line)

\* The call read no line with three fields after the marker, or the last
\* such line it read is fully taken.
LastWdlLineFullyTaken(call) ==
  LET read == LinesRead(call)
      marked == {i \in 1..Len(read) : HasThreeFields(read[i])}
  IN  marked = {} \/ FullyTaken(read[CHOOSE i \in marked : \A j \in marked : i >= j])

C27_TakesAllThreeIntegers ==
  LET read == LinesRead(lastCall)
      marked == {i \in 1..Len(read) : HasMarker(read[i])}
  IN  (/\ lastCall.task # 0
       /\ Cardinality(marked) = 1
       /\ \A i \in marked : WellFormedWdl(read[i]))
      => \A i \in marked :
           LET f == FieldsOf(read[i])
           IN  lastCall.wdl = << ValueOf(f[1]), ValueOf(f[2]), ValueOf(f[3]) >>

\* calcAccuracy was called with the probabilities 0.6 and 0.5 and returned.
CalledOnSixFive ==
  /\ score.op = "calcAccuracy"
  /\ score.returned
  /\ score.before = 1200
  /\ score.after = 1000

\* C28 as stated: calcAccuracy(0.6, 0.5) returns 60.0.
C28_ReturnsSixty == CalledOnSixFive => score.out = 600

\* C28 amended: calcAccuracy(0.6, 0.5) returns 80.0.
C28_ReturnsEighty == CalledOnSixFive => score.out = 800

\* C28 witness: calcAccuracy(0.6, 0.5) was called and returned 80.0.
C28_Witness == CalledOnSixFive /\ score.out = 800

\* C29: a goroutine about to send its record finds room in results and
\* finds it open; results never holds more than total records; the records
\* sent are one per goroutine that has passed its send; results is closed
\* only when the WaitGroup is at zero and every goroutine has returned; and
\* when the collector's loop has ended it has received one record per game.
C29_SendNeverBlocksOrPanics ==
  Analysing =>
    /\ \A t \in Tasks : pc[t] = "send" => (Len(results) < total /\ ~closed)
    /\ Len(results) <= total
    /\ received + Len(results) = Cardinality({t \in Tasks : Delivered(t)})
    /\ closed => (wg = 0 /\ \A t \in Tasks : pc[t] = "done")
    /\ mainPc = "done" => (closed /\ results = <<>> /\ received = total)

\* C29 witness: every goroutine of a batch of MaxGames games has sent its
\* record and returned before the collector took any, results is full, and
\* it has been closed.
C29_Witness ==
  /\ total = MaxGames
  /\ mainPc = "collect"
  /\ received = 0
  /\ Len(results) = total
  /\ closed

\* The latest analyze call of the first game ended on a read error.
PipeClosed == Analysing /\ 1 \in Tasks /\ lastCall.task # 0 /\ lastCall.end = "eof"

\* C30: once an analyze call of a game has ended on a read error, (a) the
\* call returned the values held at that point: (333, 334, 333) when it read
\* no WDL line, the integers of the last WDL line when all three were taken;
\* the session is no longer live; (b) every later call of the game reads nothing and returns
\* (333, 334, 333); (c) the move loop runs over all the moves; (d)
\* analyzeGame returns ok = true with the full move count.
C30_ClosedPipeStillAnalyzed ==
  PipeClosed =>
    LET read == lastCall.output
        marked == {i \in 1..Len(read) : HasThreeFields(read[i])}
        n == allGames[1].pgn.n
    IN  /\ (\A i \in 1..Len(read) : ~HasMarker(read[i])) => lastCall.wdl = <<333, 334, 333>>
        /\ (marked # {} /\ LastWdlLineFullyTaken(lastCall)) =>
              LET f == FieldsOf(read[CHOOSE i \in marked : \A j \in marked : i >= j])
              IN  lastCall.wdl = << ValueOf(f[1]), ValueOf(f[2]), ValueOf(f[3]) >>
        /\ eng[1] # "live"
        /\ (pc[1] \in {"moves", "wait"} /\ applied[1] + 1 - bestmoves[1] >= 2) =>
              (lastCall.output = <<>> /\ lastCall.wdl = <<333, 334, 333>>)
        /\ pc[1] = "wait" =>
              (applied[1] = n /\ Len(whiteAcc[1]) + Len(blackAcc[1]) = n)
        /\ Returned(1) => (ret[1].ok /\ ret[1].moves = n)

\* C30 witness: the engine answered the first requests of a game of MaxMoves
\* moves, the pipe closed with at least two requests still to come, and
\* analyzeGame returned ok = true with all the moves counted.
C30_Witness ==
  /\ PipeClosed
  /\ ~startupEof[1]
  /\ allGames[1].pgn.n = MaxMoves
  /\ bestmoves[1] >= 1
  /\ bestmoves[1] <= MaxMoves - 1
  /\ Returned(1)
  /\ ret[1].ok
  /\ ret[1].moves = MaxMoves

\* main has started every goroutine and the closer, and every game goroutine
\* is at its send on sem.
AllAtSem ==
  /\ mainPc = "collect"
  /\ closerPc = "wait"
  /\ \A t \in Tasks : pc[t] = "sem"

\* C31: with workers = 0 and at least one game, no goroutine ever passes its
\* send on sem; no engine is started and no command is written; no record
\* is sent or received; the completion counter stays 0; results is never
\* closed; main never leaves the collecting loop; and once every goroutine
\* is started no step of the program is possible.
C31_ZeroWorkersBlocks ==
  (workers = 0 /\ Analysing /\ total >= 1) =>
    /\ sem = 0
    /\ \A t \in Tasks :
         /\ pc[t] \in {"unborn", "sem"}
         /\ eng[t] = "none"
         /\ sent[t] = <<>>
    /\ results = <<>>
    /\ received = 0
    /\ completed = 0
    /\ wg = launched
    /\ ~closed
    /\ mainPc # "done"
    /\ AllAtSem => ~ENABLED Next

\* C31 witness: with workers = 0 every goroutine of a batch of MaxGames games
\* is at its send on sem, the closer waits and main is in the collecting loop.
C31_Witness ==
  /\ workers = 0
  /\ total = MaxGames
  /\ AllAtSem
  /\ wg = total
  /\ ~closed

====
